---- MODULE Spec2Model ----
(***************************************************************************)
(* Model of uaclient's full_auto_attach orchestration                      *)
(* (uaclient/api/u/pro/attach/auto/full_auto_attach/v1.py), the attach     *)
(* primitives of uaclient/actions.py it calls and the entitlement registry *)
(* and sorter of uaclient/entitlements/__init__.py.                        *)
(*                                                                         *)
(* One behaviour is one call of full_auto_attach(options, cfg).  The       *)
(* options and the machine's attach state are chosen in Init; every        *)
(* external collaborator (cloud factory, contract server, _detach, the     *)
(* entitlement's enable()) answers nondeterministically.                   *)
(***************************************************************************)
EXTENDS Integers, Sequences, FiniteSets, TLC

\* ---------------------------------------------------------------- bounds
\* longest enable / enable_beta list drawn in Init
MaxLen == 2
\* largest options.retries drawn in Init (the smallest is -1)
MaxRetries == 3
MaxClasses == 3
MaxChildren == 2
MaxDepth == 6

\* ------------------------------------------------------------- registry
ENTITLEMENT_CLASSES ==
    << "cc-eal", "cis", "esm-apps", "esm-infra", "fips", "fips-updates",
       "livepatch", "realtime-kernel", "ros", "ros-updates" >>

RegistryNames == { ENTITLEMENT_CLASSES[k] : k \in 1..Len(ENTITLEMENT_CLASSES) }

\* entitlement classes whose is_beta attribute is True
BetaEntitlements == { "realtime-kernel" }

is_beta(ent) == ent \in BetaEntitlements

\* UAEntitlement.valid_names: the names an entitlement answers to
valid_names(ent) == { ent }

\* UAEntitlement.required_services, as a sequence of registry names
required_services(ent) ==
    IF ent = "esm-apps" THEN << "esm-infra" >> ELSE << >>

\* entitlement_factory: the first class of ENTITLEMENT_CLASSES that has the
\* name among its valid names; "EntitlementNotFoundError" when none has
RECURSIVE entitlement_factory_from(_, _)
entitlement_factory_from(name, k) ==
    IF k > Len(ENTITLEMENT_CLASSES) THEN "EntitlementNotFoundError"
    ELSE IF name \in valid_names(ENTITLEMENT_CLASSES[k])
         THEN ENTITLEMENT_CLASSES[k]
         ELSE entitlement_factory_from(name, k + 1)

entitlement_factory(name) == entitlement_factory_from(name, 1)

\* valid_services(cfg, allow_beta, all_names=True), as the set of names
valid_services(allow_beta) ==
    UNION { valid_names(ENTITLEMENT_CLASSES[k]) :
              k \in { j \in 1..Len(ENTITLEMENT_CLASSES) :
                        allow_beta \/ ~is_beta(ENTITLEMENT_CLASSES[j]) } }

\* UAEntitlement.dependent_services, as a sequence of registry names
dependent_services(ent) ==
    IF ent = "esm-infra" THEN << "esm-apps" >> ELSE << >>

\* the registry the calls of this model run against: the declaration order
\* and the two dependency graphs
Registry ==
    [ classes   |-> ENTITLEMENT_CLASSES,
      required  |-> [ e \in RegistryNames |-> required_services(e) ],
      dependent |-> [ e \in RegistryNames |-> dependent_services(e) ] ]

\* ---------------------------------------------------------------- sorter
\* _sort_entitlements_visit over the registry reg; st is the pair of the
\* visited dict (its key set) and the order list
RECURSIVE sort_entitlements_visit(_, _, _, _)
RECURSIVE sort_entitlements_children(_, _, _, _, _, _)
sort_entitlements_children(reg, ent, sort_order, cls_list, k, st) ==
    IF k > Len(cls_list) THEN st
    ELSE sort_entitlements_children(reg, ent, sort_order, cls_list, k + 1,
             IF ent \notin st.visited
             THEN sort_entitlements_visit(reg, cls_list[k], sort_order, st)
             ELSE st)

\* a visit that does not look at the visited dict
sort_entitlements_visit_unmarked(reg, ent, sort_order, st) ==
    LET cls_list == IF sort_order = "REQUIRED_SERVICES"
                    THEN reg.required[ent]
                    ELSE reg.dependent[ent]
        after == sort_entitlements_children(reg, ent, sort_order,
                                            cls_list, 1, st)
    IN  [ visited |-> after.visited \cup {ent},
          order   |-> Append(after.order, ent) ]

\* a visit that appends the entitlement before it visits its children
sort_entitlements_visit_preorder(reg, ent, sort_order, st) ==
    IF ent \in st.visited THEN st
    ELSE LET cls_list == IF sort_order = "REQUIRED_SERVICES"
                         THEN reg.required[ent]
                         ELSE reg.dependent[ent]
         IN  sort_entitlements_children(reg, "", sort_order, cls_list, 1,
                 [ visited |-> st.visited \cup {ent},
                   order   |-> Append(st.order, ent) ])

sort_entitlements_visit(reg, ent, sort_order, st) ==
    IF ent \in st.visited THEN st
    ELSE LET cls_list == IF sort_order = "REQUIRED_SERVICES"
                         THEN reg.required[ent]
                         ELSE reg.dependent[ent]
             after == sort_entitlements_children(reg, ent, sort_order,
                                                 cls_list, 1, st)
         IN  [ visited |-> after.visited \cup {ent},
               order   |-> Append(after.order, ent) ]

RECURSIVE sort_entitlements_from(_, _, _, _)
sort_entitlements_from(reg, sort_order, k, st) ==
    IF k > Len(reg.classes) THEN st.order
    ELSE sort_entitlements_from(reg, sort_order, k + 1,
             sort_entitlements_visit(reg, reg.classes[k], sort_order, st))

sort_entitlements(reg, sort_order) ==
    sort_entitlements_from(reg, sort_order, 1,
                           [ visited |-> {}, order |-> << >> ])

\* a disable order that follows the required services
entitlements_disable_order_by_required(reg) ==
    sort_entitlements(reg, "REQUIRED_SERVICES")

entitlements_disable_order(reg) == sort_entitlements(reg, "DEPENDENT_SERVICES")

entitlements_enable_order(reg) == sort_entitlements(reg, "REQUIRED_SERVICES")

\* the enable order of the registry of this model
RegistryEnableOrder == entitlements_enable_order(Registry)

\* -------------------------------------------------------------- resolver
Range(s) == { s[k] : k \in 1..Len(s) }

\* a resolution that forgets the beta names it rejects
resolve_beta_dropped(names, allow_beta) ==
    [ found         |-> SelectSeq(RegistryEnableOrder,
                           LAMBDA n : n \in names /\ n \in valid_services(allow_beta)),
      not_found     |-> names \ valid_services(TRUE),
      beta_rejected |-> {} ]

\* the Entitlement Resolver: the accepted names in enable order, the unknown
\* names and the names rejected for being beta
resolve(names, allow_beta) ==
    [ found         |-> SelectSeq(RegistryEnableOrder,
                           LAMBDA n : n \in names /\ n \in valid_services(allow_beta)),
      not_found     |-> names \ valid_services(TRUE),
      beta_rejected |-> (names \cap valid_services(TRUE)) \ valid_services(allow_beta) ]

\* a lookup that hands the found names back in the reverse of the enable order
get_valid_entitlement_names_reversed(names) ==
    [ found     |-> [ k \in 1..Len(resolve(names, TRUE).found) |->
                        resolve(names, TRUE).found[Len(resolve(names, TRUE).found) + 1 - k] ],
      not_found |-> resolve(names, TRUE).not_found ]

\* cli.get_valid_entitlement_names(names, cfg): the known names in enable
\* order and the unknown names; beta entitlements are allowed
get_valid_entitlement_names(names) ==
    [ found     |-> resolve(names, TRUE).found,
      not_found |-> resolve(names, TRUE).not_found ]

\* is_any_beta(cfg, ents): unknown names are skipped
RECURSIVE is_any_beta_from(_, _)
is_any_beta_from(ents, k) ==
    IF k > Len(ents) THEN FALSE
    ELSE LET ent_cls == entitlement_factory(ents[k])
         IN  IF ent_cls = "EntitlementNotFoundError"
             THEN is_any_beta_from(ents, k + 1)
             ELSE IF is_beta(ent_cls) THEN TRUE
                  ELSE is_any_beta_from(ents, k + 1)

\* a beta check that an unknown name ends
is_any_beta_unknown_stops(ents) ==
    \E k \in 1..Len(ents) :
        /\ \A j \in 1..k : entitlement_factory(ents[j]) # "EntitlementNotFoundError"
        /\ is_beta(entitlement_factory(ents[k]))

\* a beta check that looks at the first name only
is_any_beta_first_only(ents) ==
    /\ Len(ents) > 0
    /\ entitlement_factory(ents[1]) # "EntitlementNotFoundError"
    /\ is_beta(entitlement_factory(ents[1]))

is_any_beta(ents) == is_any_beta_from(ents, 1)

\* ----------------------------------------------------------------- inputs
\* names a caller may put in enable / enable_beta: a plain service, a beta
\* service and a name the registry does not know
RequestNames == { "esm-infra", "realtime-kernel", "wrong" }

\* a request over two services of which one requires the other
OrderNames == { "esm-apps", "esm-infra" }

AllNames == RequestNames \cup OrderNames

SeqsUpTo(S, n) == UNION { [1..k -> S] : k \in 0..n }

\* Optional[int] as a sequence of length 0 (None) or 1
RetriesValues == { << >> } \cup { << r >> : r \in (-1)..MaxRetries }

\* what entitlement.enable() may return: (ent_ret, reason)
NoReason == [ is_none |-> TRUE, is_can_enable_failure |-> FALSE, has_message |-> FALSE ]

EnableReturns ==
    { [ ent_ret |-> TRUE, reason |-> NoReason ],
      [ ent_ret |-> FALSE, reason |-> NoReason ] }
    \cup
    { [ ent_ret |-> FALSE,
        reason  |-> [ is_none |-> FALSE, is_can_enable_failure |-> c, has_message |-> m ] ] :
        c \in BOOLEAN, m \in BOOLEAN }

\* ContractAPIError.code values the token request may fail with; an
\* Optional[int] as a sequence of length 0 (None) or 1
ContractErrorCodes == { << >>, << 0 >>, << 399 >>, << 400 >>, << 499 >>, << 500 >> }

NoTokenError == [ raised |-> FALSE, code |-> << >> ]

\* the machine before the call: cfg.is_attached and the instance-id cache
MachineStates ==
    { [ is_attached |-> FALSE, cache |-> "None" ],
      [ is_attached |-> TRUE,  cache |-> "None" ],
      [ is_attached |-> TRUE,  cache |-> "i-cur" ],
      [ is_attached |-> TRUE,  cache |-> "i-old" ] }

\* ------------------------------------------------------------------ state
VARIABLES
    options,            \* FullAutoAttachOptions: enable, enable_beta, retries
    pc,                 \* position inside full_auto_attach
    i, limit,           \* loop counter and attempt limit
    already_attached,   \* the attach latch
    allow_enable,
    instance, token,    \* locals of the attach phase
    services,           \* list(set(services)), as a set
    found, not_found,   \* result of get_valid_entitlement_names
    pos,                \* position of the for loop in found
    enabled_services,
    result,             \* "None" while running, then the return or the error
    is_attached,        \* cfg.is_attached
    instance_id_cache,  \* cfg.read_cache("instance-id")
    current_iid,        \* identity.get_instance_id()
    calls,              \* how often each collaborator was invoked
    iter_calls,         \* enable calls per name in the current iteration
    iter_ok,            \* names whose enable call succeeded in the current iteration
    passes,             \* how often the enable pass was started
    sleeps,             \* how often time.sleep(2) was called
    slept,              \* total time slept
    any_failed,         \* some enable call returned ent_ret False
    iterations,         \* how often the loop body was entered
    attach_returned,    \* attach_with_token returned without raising
    structured_failures,\* enable calls that failed with a structured reason
    ever_ok,            \* names whose enable call succeeded in some iteration
    token_error,        \* the ContractAPIError the token request failed with
    contract_outcome,   \* how request_updated_contract ended, "None" before
    lib_pc,             \* position of a direct call of the sorter or resolver
    reg,                \* the registry the sorter is called on
    sorted_by,          \* the sort order of the call, "None" before
    order,              \* the list the sorter returned
    req_names,          \* the requested names handed to the resolver
    allow_beta,         \* the allow_beta argument of the resolver
    resolution,         \* what the resolver returned
    stack,              \* the calls of _sort_entitlements_visit under way
    visited,            \* the keys of the visited dict of a stepwise sort
    next_root,          \* position of the for loop of _sort_entitlements
    beta_ents,          \* the list handed to is_any_beta
    beta_answer         \* what is_any_beta returned

vars == << options, pc, i, limit, already_attached, allow_enable, instance,
           token, services, found, not_found, pos, enabled_services, result,
           is_attached, instance_id_cache, current_iid, calls, iter_calls,
           iter_ok, passes, sleeps, slept, any_failed, iterations,
           attach_returned, structured_failures, ever_ok, token_error,
           contract_outcome, lib_pc, reg, sorted_by, order, req_names,
           allow_beta, resolution, stack, visited, next_root, beta_ents,
           beta_answer >>

query == << beta_ents, beta_answer >>

recursion == << stack, visited, next_root >>

library == << lib_pc, reg, sorted_by, order, req_names, allow_beta,
             resolution, recursion, query >>

locals == << i, limit, already_attached, allow_enable, instance, token,
             services, found, not_found, pos, enabled_services >>

machine == << is_attached, instance_id_cache, current_iid >>

history == << iter_calls, iter_ok, passes, sleeps, slept, any_failed,
              iterations, attach_returned, structured_failures, ever_ok,
              contract_outcome >>

Collaborators ==
    { "get_cloud_instance", "detach_before_auto_attach", "_detach",
      "get_auto_attach_token", "attach_with_token", "status",
      "enable_entitlement_by_name" }

Called(c) == [ calls EXCEPT ![c] = @ + 1 ]

\* the state before full_auto_attach is called with names out of nameset
CallInit(nameset) ==
    /\ options \in [ enable      : SeqsUpTo(nameset, MaxLen),
                     enable_beta : SeqsUpTo(nameset, MaxLen),
                     retries     : RetriesValues ]
    /\ pc = "start"
    /\ i = 0
    /\ limit = 0
    /\ already_attached = FALSE
    /\ allow_enable = FALSE
    /\ instance = "None"
    /\ token = "None"
    /\ services = {}
    /\ found = << >>
    /\ not_found = {}
    /\ pos = 1
    /\ enabled_services = 0
    /\ result = "None"
    /\ \E m \in MachineStates :
          /\ is_attached = m.is_attached
          /\ instance_id_cache = m.cache
    /\ current_iid \in { "None", "i-cur" }
    /\ calls = [ c \in Collaborators |-> 0 ]
    /\ iter_calls = [ n \in AllNames |-> 0 ]
    /\ iter_ok = {}
    /\ passes = 0
    /\ sleeps = 0
    /\ slept = 0
    /\ any_failed = FALSE
    /\ iterations = 0
    /\ attach_returned = FALSE
    /\ structured_failures = 0
    /\ ever_ok = {}
    /\ token_error = NoTokenError
    /\ contract_outcome = "None"

NoResolution == [ found |-> << >>, not_found |-> {}, beta_rejected |-> {} ]

\* no direct call of the sorter or the resolver is under way
LibIdle ==
    /\ lib_pc = "idle"
    /\ reg = Registry
    /\ sorted_by = "None"
    /\ order = << >>
    /\ req_names = {}
    /\ allow_beta = TRUE
    /\ resolution = NoResolution
    /\ stack = << >>
    /\ visited = {}
    /\ next_root = 1
    /\ beta_ents = << >>
    /\ beta_answer = FALSE

Init == CallInit(RequestNames) /\ LibIdle

\* raise exc / return value out of full_auto_attach
Finish(r) == /\ result' = r
             /\ pc' = "done"

\* --------------------------------------------------------------- actions
\* i = 0; limit = 3; if options.retries: limit = options.retries;
\* already_attached = False
\* a start that takes every given retries as the limit, 0 included
StartRetriesNotNone ==
    /\ pc = "start"
    /\ i' = 0
    /\ limit' = IF options.retries # << >> THEN options.retries[1] ELSE 3
    /\ already_attached' = FALSE
    /\ pc' = "while"
    /\ UNCHANGED << options, library, token_error, allow_enable, instance, token, services, found,
                    not_found, pos, enabled_services, result, machine, calls,
                    history >>

Start ==
    /\ pc = "start"
    /\ i' = 0
    /\ limit' = IF options.retries # << >> /\ options.retries[1] # 0
                THEN options.retries[1] ELSE 3
    /\ already_attached' = FALSE
    /\ pc' = "while"
    /\ UNCHANGED << options, library, token_error, allow_enable, instance, token, services, found,
                    not_found, pos, enabled_services, result, machine, calls,
                    history >>

\* a loop body that runs the attach phase in every iteration
AttachPhaseAlways(latch) == "get_cloud_instance"

\* if not already_attached: the attach phase, else straight to the enable pass
AttachPhaseOrServices(latch) ==
    IF ~latch THEN "get_cloud_instance" ELSE "services"

\* while i < limit: ... else raise FullAutoAttachFailureError
WhileTest ==
    /\ pc = "while"
    /\ IF i < limit
       THEN /\ pc' = AttachPhaseOrServices(already_attached)
            /\ iterations' = iterations + 1
            /\ UNCHANGED result
       ELSE /\ Finish("FullAutoAttachFailureError")
            /\ UNCHANGED iterations
    /\ UNCHANGED << options, library, token_error, locals, machine, calls, iter_calls, iter_ok,
                    passes, sleeps, slept, any_failed, attach_returned,
                    structured_failures, ever_ok, contract_outcome >>

\* instance = actions.get_cloud_instance(cfg)
GetCloudInstance ==
    /\ pc = "get_cloud_instance"
    /\ calls' = Called("get_cloud_instance")
    /\ token' = "None"
    /\ \E outcome \in { "disabled", "instance", "falsy", "NoCloud", "NonViable",
                        "Unsupported", "OtherCloudFactoryError" } :
          CASE outcome = "disabled" ->
                 /\ instance' = "None"
                 /\ pc' = "detach_before_auto_attach"
                 /\ UNCHANGED result
            [] outcome = "instance" ->
                 /\ instance' = "instance"
                 /\ pc' = "detach_before_auto_attach"
                 /\ UNCHANGED result
            [] outcome = "falsy" ->
                 /\ instance' = "None"
                 /\ Finish("UserFacingError")
            [] OTHER ->
                 /\ instance' = "None"
                 /\ Finish(IF is_attached THEN "AlreadyAttachedError"
                           ELSE IF outcome = "Unsupported"
                                THEN "NonAutoAttachImageError"
                                ELSE "UserFacingError")
    /\ UNCHANGED << options, library, token_error, i, limit, already_attached, allow_enable,
                    services, found, not_found, pos, enabled_services,
                    machine, history >>

\* a detach_before_auto_attach that goes on whatever _detach returns
DetachBeforeAutoAttachUnchecked ==
    /\ pc = "detach_before_auto_attach"
    /\ IF is_attached /\ current_iid = instance_id_cache
       THEN /\ Finish("AlreadyAttachedOnPROError")
            /\ calls' = Called("detach_before_auto_attach")
            /\ UNCHANGED << is_attached, instance_id_cache >>
       ELSE /\ calls' = [ calls EXCEPT !["detach_before_auto_attach"] = @ + 1,
                                       !["_detach"] = @ + (IF is_attached THEN 1 ELSE 0) ]
            /\ pc' = "get_auto_attach_token"
            /\ \E rc \in { 0, 1 } :
                  IF is_attached /\ rc = 0
                  THEN is_attached' = FALSE /\ instance_id_cache' = "None"
                  ELSE UNCHANGED << is_attached, instance_id_cache >>
            /\ UNCHANGED result
    /\ UNCHANGED << options, library, token_error, locals, current_iid, history >>

\* actions.detach_before_auto_attach(cfg); a _detach that returns 0 leaves the
\* machine unattached with its cache deleted
DetachBeforeAutoAttach ==
    /\ pc = "detach_before_auto_attach"
    /\ IF is_attached
       THEN IF current_iid = instance_id_cache
            THEN /\ Finish("AlreadyAttachedOnPROError")
                 /\ calls' = Called("detach_before_auto_attach")
                 /\ UNCHANGED << is_attached, instance_id_cache >>
            ELSE \E rc \in { 0, 1 } :
                 /\ calls' = [ calls EXCEPT !["detach_before_auto_attach"] = @ + 1,
                                            !["_detach"] = @ + 1 ]
                 /\ IF rc # 0
                    THEN /\ Finish("UserFacingError")
                         /\ UNCHANGED << is_attached, instance_id_cache >>
                    ELSE /\ is_attached' = FALSE
                         /\ instance_id_cache' = "None"
                         /\ pc' = "get_auto_attach_token"
                         /\ UNCHANGED result
       ELSE /\ calls' = Called("detach_before_auto_attach")
            /\ pc' = "get_auto_attach_token"
            /\ UNCHANGED << result, is_attached, instance_id_cache >>
    /\ UNCHANGED << options, library, token_error, locals, current_iid, history >>

\* default enablement unless both lists are given
AllowEnableUnlessBoth(opts) ==
    ~(opts.enable # << >> /\ opts.enable_beta # << >>)

\* allow_enable = not any([options.enable, options.enable_beta])
AllowEnable(opts) ==
    ~(opts.enable # << >> \/ opts.enable_beta # << >>)

\* a conversion that also takes code 500 for an unsupported image
TokenErrorUpTo500(code) ==
    IF code # << >> /\ code[1] # 0 /\ 400 <= code[1] /\ code[1] <= 500
    THEN "NonAutoAttachImageError"
    ELSE "ContractAPIError"

\* get_auto_attach_token, the except clause: what is raised for a
\* ContractAPIError with this code
TokenError(code) ==
    IF code # << >> /\ code[1] # 0 /\ 400 <= code[1] /\ code[1] < 500
    THEN "NonAutoAttachImageError"
    ELSE "ContractAPIError"

\* allow_enable = ...; token = get_auto_attach_token(cfg, instance)
GetAutoAttachToken ==
    /\ pc = "get_auto_attach_token"
    /\ allow_enable' = AllowEnable(options)
    /\ calls' = Called("get_auto_attach_token")
    /\ \/ /\ token' = "token"
          /\ pc' = "attach_with_token"
          /\ UNCHANGED << result, token_error >>
       \/ /\ \E code \in ContractErrorCodes :
                /\ token_error' = [ raised |-> TRUE, code |-> code ]
                /\ Finish(TokenError(code))
          /\ UNCHANGED token
       \/ /\ Finish("UrlError")
          /\ UNCHANGED << token, token_error >>
    /\ UNCHANGED << options, library, i, limit, already_attached, instance, services,
                    found, not_found, pos, enabled_services, machine, history >>

\* an attach_with_token that writes the instance-id marker before it asks
\* the contract server
attach_with_token_marker_first ==
    \E outcome \in { "ok", "UrlError", "UserFacingError" } :
        /\ contract_outcome' = outcome
        /\ instance_id_cache' = IF current_iid # "None" THEN current_iid
                                ELSE instance_id_cache
        /\ IF outcome = "ok"
           THEN /\ calls' = Called("attach_with_token")
                /\ is_attached' = TRUE
           ELSE /\ calls' = [ calls EXCEPT !["attach_with_token"] = @ + 1,
                                           !["status"] = @ + 1 ]
                /\ is_attached' \in { is_attached, TRUE }

\* actions.attach_with_token(cfg, token, allow_enable): the outcome of
\* request_updated_contract, the status refresh on an error, the
\* instance-id marker on success
attach_with_token ==
    \E outcome \in { "ok", "UrlError", "UserFacingError" } :
        /\ contract_outcome' = outcome
        /\ IF outcome = "ok"
           THEN /\ calls' = Called("attach_with_token")
                /\ is_attached' = TRUE
                /\ instance_id_cache' = IF current_iid # "None" THEN current_iid
                                        ELSE instance_id_cache
           ELSE /\ calls' = [ calls EXCEPT !["attach_with_token"] = @ + 1,
                                           !["status"] = @ + 1 ]
                /\ is_attached' \in { is_attached, TRUE }
                /\ UNCHANGED instance_id_cache

\* an attach whose error is swallowed by the loop: the iteration is counted
\* as failed and the attach phase is tried again after the backoff
AttachWithTokenRetried ==
    /\ pc = "attach_with_token"
    /\ attach_with_token
    /\ IF contract_outcome' = "ok"
       THEN /\ attach_returned' = TRUE
            /\ IF allow_enable
               THEN /\ Finish("FullAutoAttachResult")
                    /\ UNCHANGED << already_attached, i >>
               ELSE /\ already_attached' = TRUE
                    /\ pc' = "services"
                    /\ UNCHANGED << result, i >>
       ELSE /\ i' = i + 1
            /\ pc' = "sleep"
            /\ UNCHANGED << result, already_attached, attach_returned >>
    /\ UNCHANGED << options, library, token_error, limit, allow_enable, instance,
                    token, services, found, not_found, pos, enabled_services,
                    current_iid, iter_calls, iter_ok, passes, sleeps, slept,
                    any_failed, iterations, structured_failures, ever_ok >>

\* actions.attach_with_token(cfg, token=token, allow_enable=allow_enable)
\* if allow_enable: return FullAutoAttachResult()
\* already_attached = True
AttachWithToken ==
    /\ pc = "attach_with_token"
    /\ attach_with_token
    /\ IF contract_outcome' = "ok"
       THEN /\ attach_returned' = TRUE
            /\ IF allow_enable
               THEN /\ Finish("FullAutoAttachResult")
                    /\ UNCHANGED already_attached
               ELSE /\ already_attached' = TRUE
                    /\ pc' = "services"
                    /\ UNCHANGED result
       ELSE /\ Finish(contract_outcome')
            /\ UNCHANGED << already_attached, attach_returned >>
    /\ UNCHANGED << options, library, token_error, i, limit, allow_enable, instance,
                    token, services, found, not_found, pos, enabled_services,
                    current_iid, iter_calls, iter_ok, passes, sleeps, slept,
                    any_failed, iterations, structured_failures, ever_ok >>

\* services = list(); the beta check of options.enable; services += ...;
\* services = list(set(services)); found, not_found = ...; enabled_services = 0
ServicesOf(opts) == Range(opts.enable) \cup Range(opts.enable_beta)

Services ==
    /\ pc = "services"
    /\ passes' = passes + 1
    /\ iter_calls' = [ n \in AllNames |-> 0 ]
    /\ iter_ok' = {}
    /\ IF options.enable # << >> /\ is_any_beta(options.enable)
       THEN /\ Finish("BetaServiceError")
            /\ UNCHANGED << services, found, not_found, pos, enabled_services >>
       ELSE /\ services' = ServicesOf(options)
            /\ found' = get_valid_entitlement_names(ServicesOf(options)).found
            /\ not_found' = get_valid_entitlement_names(ServicesOf(options)).not_found
            /\ enabled_services' = 0
            /\ pos' = 1
            /\ pc' = "for"
            /\ UNCHANGED result
    /\ UNCHANGED << options, library, token_error, i, limit, already_attached, allow_enable,
                    instance, token, machine, calls, sleeps, slept,
                    any_failed, iterations, attach_returned,
                    structured_failures, ever_ok, contract_outcome >>

\* a check of the reason that takes every failure for a structured one
IsStructuredAlways(reason) == TRUE

\* a check of the reason that never finds it structured
IsStructuredNever(reason) == FALSE

\* the reason makes full_auto_attach raise EntitlementNotEnabledError
IsStructured(reason) ==
    ~reason.is_none /\ reason.is_can_enable_failure /\ reason.has_message

\* for name in found: ent_ret, reason = actions.enable_entitlement_by_name(...)
EnableNext ==
    /\ pc = "for"
    /\ pos <= Len(found)
    /\ calls' = Called("enable_entitlement_by_name")
    /\ iter_calls' = [ iter_calls EXCEPT ![found[pos]] = @ + 1 ]
    /\ pos' = pos + 1
    /\ \E ret \in EnableReturns :
          IF ~ret.ent_ret
          THEN /\ any_failed' = TRUE
               /\ UNCHANGED << enabled_services, iter_ok, ever_ok >>
               /\ structured_failures' =
                     IF ret.reason.is_can_enable_failure /\ ret.reason.has_message
                     THEN structured_failures + 1 ELSE structured_failures
               /\ IF IsStructured(ret.reason)
                  THEN Finish("EntitlementNotEnabledError")
                  ELSE UNCHANGED << pc, result >>
          ELSE /\ enabled_services' = enabled_services + 1
               /\ iter_ok' = iter_ok \cup { found[pos] }
               /\ ever_ok' = ever_ok \cup { found[pos] }
               /\ UNCHANGED << pc, result, any_failed, structured_failures >>
    /\ UNCHANGED << options, library, token_error, i, limit, already_attached, allow_enable,
                    instance, token, services, found, not_found, machine,
                    passes, sleeps, slept, iterations, attach_returned,
                    contract_outcome >>

\* an end of iteration that compares with the length of the two lists
IterationOutcomeListLength(nf, svcs, n) ==
    IF nf # {} THEN "EntitlementNotFoundError"
    ELSE IF Len(options.enable) + Len(options.enable_beta) = n
         THEN "FullAutoAttachResult"
    ELSE "retry"

\* an end of iteration that accepts any count of enabled services
IterationOutcomeAtMost(nf, svcs, n) ==
    IF nf # {} THEN "EntitlementNotFoundError"
    ELSE IF Cardinality(svcs) >= n THEN "FullAutoAttachResult"
    ELSE "retry"

\* an end of iteration that counts only the names the registry knows
IterationOutcomeKnownOnly(nf, svcs, n) ==
    IF Cardinality(svcs \ nf) = n THEN "FullAutoAttachResult"
    ELSE "retry"

\* an end of iteration that retries when names were not found
IterationOutcomeRetryUnknown(nf, svcs, n) ==
    IF Cardinality(svcs) = n THEN "FullAutoAttachResult"
    ELSE "retry"

\* how an iteration ends after the for loop: if not_found: raise
\* EntitlementNotFoundError; if len(services) == enabled_services: return;
\* else another attempt
IterationOutcome(nf, svcs, n) ==
    IF nf # {} THEN "EntitlementNotFoundError"
    ELSE IF Cardinality(svcs) = n THEN "FullAutoAttachResult"
    ELSE "retry"

\* after the for loop: raise, return, or i += 1
ForEnd ==
    /\ pc = "for"
    /\ pos > Len(found)
    /\ IF IterationOutcome(not_found, services, enabled_services) = "retry"
       THEN /\ i' = i + 1
            /\ pc' = "sleep"
            /\ UNCHANGED result
       ELSE /\ Finish(IterationOutcome(not_found, services, enabled_services))
            /\ UNCHANGED i
    /\ UNCHANGED << options, library, token_error, limit, already_attached, allow_enable, instance,
                    token, services, found, not_found, pos, enabled_services,
                    machine, calls, history >>

\* time.sleep(2)
BackoffSeconds == 2

\* a retry that goes straight back to the loop test without backing off
SleepSkipped ==
    /\ pc = "sleep"
    /\ pc' = "while"
    /\ UNCHANGED << options, library, token_error, locals, result, machine, calls, history >>

Sleep ==
    /\ pc = "sleep"
    /\ sleeps' = sleeps + 1
    /\ slept' = slept + BackoffSeconds
    /\ pc' = "while"
    /\ UNCHANGED << options, library, token_error, locals, result, machine, calls, iter_calls,
                    iter_ok, passes, any_failed, iterations, attach_returned,
                    structured_failures, ever_ok, contract_outcome >>

Next ==
    \/ Start
    \/ WhileTest
    \/ GetCloudInstance
    \/ DetachBeforeAutoAttach
    \/ GetAutoAttachToken
    \/ AttachWithToken
    \/ Services
    \/ EnableNext
    \/ ForEnd
    \/ Sleep

Spec == Init /\ [][Next]_vars

\* ------------------------------------------------ actions.auto_attach
\* auto_attach, the except clause: what is raised for a ContractAPIError
\* with this code
AutoAttachTokenError(code) ==
    IF code # << >> /\ code[1] # 0 /\ 400 <= code[1] /\ code[1] < 500
    THEN "NonAutoAttachImageError"
    ELSE "ContractAPIError"

\* tokenResponse = contract_client.request_auto_attach_contract_token(...)
AutoAttachRequestToken ==
    /\ pc = "start"
    /\ \/ /\ token' = "token"
          /\ pc' = "auto_attach_attach"
          /\ UNCHANGED << result, token_error >>
       \/ /\ \E code \in ContractErrorCodes :
                /\ token_error' = [ raised |-> TRUE, code |-> code ]
                /\ Finish(AutoAttachTokenError(code))
          /\ UNCHANGED token
       \/ /\ Finish("UrlError")
          /\ UNCHANGED << token, token_error >>
    /\ UNCHANGED << options, library, i, limit, already_attached, allow_enable,
                    instance, services, found, not_found, pos,
                    enabled_services, machine, calls, history >>

\* attach_with_token(cfg, token=token, allow_enable=True)
AutoAttachAttach ==
    /\ pc = "auto_attach_attach"
    /\ allow_enable' = TRUE
    /\ attach_with_token
    /\ attach_returned' = (contract_outcome' = "ok")
    /\ Finish(IF contract_outcome' = "ok" THEN "auto_attach returned"
              ELSE contract_outcome')
    /\ UNCHANGED << options, library, token_error, i, limit, already_attached,
                    instance, token, services, found, not_found, pos,
                    enabled_services, current_iid, iter_calls, iter_ok,
                    passes, sleeps, slept, any_failed, iterations,
                    structured_failures, ever_ok >>

\* a call of either entry point: full_auto_attach or actions.auto_attach
EntryNext ==
    \/ Next
    \/ AutoAttachRequestToken
    \/ AutoAttachAttach

EntrySpec == Init /\ [][EntryNext]_vars

\* the call runs to its end: no step of full_auto_attach waits for another process
FairSpec == Spec /\ WF_vars(Next)

\* full_auto_attach called with services that depend on one another
OrderInit == CallInit(OrderNames) /\ LibIdle

OrderSpec == OrderInit /\ [][Next]_vars

\* ------------------------------------------- sorter and resolver, directly
\* the first MaxClasses entries of ENTITLEMENT_CLASSES
SortClasses == SubSeq(ENTITLEMENT_CLASSES, 1, MaxClasses)

\* the lists of distinct names out of S, of at most n names
ChildLists(S, n) ==
    { l \in SeqsUpTo(S, n) : \A j, k \in 1..Len(l) : l[j] = l[k] => j = k }

\* the dependency graphs over the first k classes: every class lists at most
\* MaxChildren other classes
RECURSIVE GraphsOver(_)
GraphsOver(k) ==
    IF k = 0 THEN { << >> }
    ELSE { g @@ (SortClasses[k] :> l) :
              g \in GraphsOver(k - 1),
              l \in ChildLists(Range(SortClasses) \ { SortClasses[k] },
                               MaxChildren) }

RECURSIVE Closure(_, _, _)
Closure(g, X, n) ==
    IF n = 0 THEN X
    ELSE Closure(g, X \cup UNION { Range(g[e]) : e \in X }, n - 1)

\* what ent reaches through the graph g
Descendants(g, ent) == Closure(g, Range(g[ent]), Cardinality(DOMAIN g))

Acyclic(g) == \A ent \in DOMAIN g : ent \notin Descendants(g, ent)

AcyclicGraphs == { g \in GraphsOver(MaxClasses) : Acyclic(g) }

EmptyGraph == [ e \in Range(SortClasses) |-> << >> ]

\* the registry of esm-infra and esm-apps, esm-apps requiring esm-infra
ExampleRegistry ==
    [ classes   |-> SelectSeq(ENTITLEMENT_CLASSES, LAMBDA e : e \in OrderNames),
      required  |-> [ e \in OrderNames |-> required_services(e) ],
      dependent |-> [ e \in OrderNames |-> dependent_services(e) ] ]

\* the registries the sorter is called on: an acyclic graph as the required
\* services or as the dependent services, and the example registry
SortRegistries ==
    { [ classes |-> SortClasses, required |-> g, dependent |-> EmptyGraph ] :
        g \in AcyclicGraphs }
    \cup
    { [ classes |-> SortClasses, required |-> EmptyGraph, dependent |-> g ] :
        g \in AcyclicGraphs }
    \cup { ExampleRegistry }

\* the state before a direct call: one of the sorter on an acyclic graph, or
\* one of the resolver on a set of names
LibInit ==
    /\ CallInit(RequestNames)
    /\ options = [ enable |-> << >>, enable_beta |-> << >>, retries |-> << >> ]
    /\ ~is_attached
    /\ current_iid = "None"
    /\ sorted_by = "None"
    /\ order = << >>
    /\ resolution = NoResolution
    /\ stack = << >>
    /\ visited = {}
    /\ next_root = 1
    /\ beta_answer = FALSE
    /\ \/ /\ lib_pc = "sort"
          /\ reg \in SortRegistries
          /\ req_names = {}
          /\ allow_beta = TRUE
          /\ beta_ents = << >>
       \/ /\ lib_pc = "is_any_beta"
          /\ reg = Registry
          /\ req_names = {}
          /\ allow_beta = TRUE
          /\ beta_ents \in SeqsUpTo(AllNames, MaxLen)
       \/ /\ lib_pc = "resolve"
          /\ reg = Registry
          /\ req_names \in SUBSET AllNames
          /\ allow_beta \in BOOLEAN
          /\ beta_ents = << >>

\* entitlements_enable_order(cfg)
SortEnable ==
    /\ lib_pc = "sort"
    /\ order' = entitlements_enable_order(reg)
    /\ sorted_by' = "REQUIRED_SERVICES"
    /\ lib_pc' = "sorted"
    /\ UNCHANGED << options, pc, locals, result, machine, calls, history,
                    token_error, query, reg, req_names, allow_beta, resolution,
                    recursion >>

\* entitlements_disable_order(cfg)
SortDisable ==
    /\ lib_pc = "sort"
    /\ order' = entitlements_disable_order(reg)
    /\ sorted_by' = "DEPENDENT_SERVICES"
    /\ lib_pc' = "sorted"
    /\ UNCHANGED << options, pc, locals, result, machine, calls, history,
                    token_error, query, reg, req_names, allow_beta, resolution,
                    recursion >>

\* resolve(names, allowBeta)
Resolve ==
    /\ lib_pc = "resolve"
    /\ resolution' = resolve(req_names, allow_beta)
    /\ lib_pc' = "resolved"
    /\ UNCHANGED << options, pc, locals, result, machine, calls, history,
                    token_error, query, reg, req_names, allow_beta, sorted_by, order,
                    recursion >>

\* is_any_beta(cfg, ents)
IsAnyBeta ==
    /\ lib_pc = "is_any_beta"
    /\ beta_answer' = is_any_beta(beta_ents)
    /\ lib_pc' = "answered"
    /\ UNCHANGED << options, pc, locals, result, machine, calls, history,
                    token_error, reg, sorted_by, order, req_names,
                    allow_beta, resolution, recursion, beta_ents >>

LibNext == SortEnable \/ SortDisable \/ Resolve \/ IsAnyBeta

LibSpec == LibInit /\ [][LibNext]_vars

\* ------------------------------------------------- the sorter, call by call
\* the registries of a stepwise sort: any graph, cyclic ones included, as the
\* required services or as the dependent services
VisitRegistries ==
    { [ classes |-> SortClasses, required |-> g, dependent |-> EmptyGraph ] :
        g \in GraphsOver(MaxClasses) }
    \cup
    { [ classes |-> SortClasses, required |-> EmptyGraph, dependent |-> g ] :
        g \in GraphsOver(MaxClasses) }

\* order = [], visited = {} and the for loop before its first class
VisitInit ==
    /\ CallInit(RequestNames)
    /\ options = [ enable |-> << >>, enable_beta |-> << >>, retries |-> << >> ]
    /\ ~is_attached
    /\ current_iid = "None"
    /\ lib_pc = "visit"
    /\ reg \in VisitRegistries
    /\ sorted_by \in { "REQUIRED_SERVICES", "DEPENDENT_SERVICES" }
    /\ order = << >>
    /\ req_names = {}
    /\ allow_beta = TRUE
    /\ resolution = NoResolution
    /\ stack = << >>
    /\ visited = {}
    /\ next_root = 1
    /\ beta_ents = << >>
    /\ beta_answer = FALSE

\* a call that also returns at once for an entitlement whose visit is under way
visit_call_guarded(ent, st, vis) ==
    IF ent \in vis \/ \E k \in 1..Len(st) : st[k].ent = ent
    THEN st
    ELSE Append(st, [ ent |-> ent, k |-> 1 ])

\* the call stack after _sort_entitlements_visit is called on ent: the call
\* returns at once when ent is in visited, else its frame starts at the
\* first entry of cls_list
visit_call(ent, st, vis) ==
    IF ent \in vis THEN st ELSE Append(st, [ ent |-> ent, k |-> 1 ])

\* cls_list of the frame
cls_list_of(frame) ==
    IF sorted_by = "REQUIRED_SERVICES"
    THEN reg.required[frame.ent]
    ELSE reg.dependent[frame.ent]

\* for ent_cls in ENTITLEMENT_CLASSES: _sort_entitlements_visit(...)
SortNextRoot ==
    /\ lib_pc = "visit"
    /\ stack = << >>
    /\ next_root <= Len(reg.classes)
    /\ stack' = visit_call(reg.classes[next_root], stack, visited)
    /\ next_root' = next_root + 1
    /\ UNCHANGED << options, pc, locals, result, machine, calls, history,
                    token_error, query, lib_pc, reg, sorted_by, order, req_names,
                    allow_beta, resolution, visited >>

\* return order
SortReturn ==
    /\ lib_pc = "visit"
    /\ stack = << >>
    /\ next_root > Len(reg.classes)
    /\ lib_pc' = "returned"
    /\ UNCHANGED << options, pc, locals, result, machine, calls, history,
                    token_error, query, reg, sorted_by, order, req_names,
                    allow_beta, resolution, recursion >>

\* for cls_dependency in cls_list: if ent_cls.name not in visited: visit it;
\* the recursion is followed down to MaxDepth calls
VisitChild ==
    /\ lib_pc = "visit"
    /\ stack # << >>
    /\ LET top  == stack[Len(stack)]
           rest == [ stack EXCEPT ![Len(stack)].k = top.k + 1 ]
       IN  /\ top.k <= Len(cls_list_of(top))
           /\ stack' = IF top.ent \notin visited
                       THEN visit_call(cls_list_of(top)[top.k], rest, visited)
                       ELSE rest
           /\ Len(stack') <= MaxDepth
    /\ UNCHANGED << options, pc, locals, result, machine, calls, history,
                    token_error, query, lib_pc, reg, sorted_by, order, req_names,
                    allow_beta, resolution, visited, next_root >>

\* order.append(str(ent_cls.name)); visited[str(ent_cls.name)] = True
VisitAppend ==
    /\ lib_pc = "visit"
    /\ stack # << >>
    /\ LET top == stack[Len(stack)]
       IN  /\ top.k > Len(cls_list_of(top))
           /\ order' = Append(order, top.ent)
           /\ visited' = visited \cup { top.ent }
           /\ stack' = SubSeq(stack, 1, Len(stack) - 1)
    /\ UNCHANGED << options, pc, locals, result, machine, calls, history,
                    token_error, query, lib_pc, reg, sorted_by, req_names,
                    allow_beta, resolution, next_root >>

VisitNext == SortNextRoot \/ SortReturn \/ VisitChild \/ VisitAppend

\* the interpreter runs the call on
VisitSpec == VisitInit /\ [][VisitNext]_vars /\ WF_vars(VisitNext)

TypeOK ==
    /\ pc \in { "start", "while", "get_cloud_instance", "detach_before_auto_attach",
                "get_auto_attach_token", "attach_with_token", "services",
                "for", "sleep", "done", "auto_attach_attach" }
    /\ (pc = "done") <=> (result # "None")

\* ------------------------------------------------------------ vocabulary
\* the deduplicated request
Requested == Range(options.enable) \cup Range(options.enable_beta)

\* the registry has an entitlement that answers to the name
KnownName(n) == \E e \in RegistryNames : n \in valid_names(e)

\* some name of the list is the name of a beta entitlement
BetaNamed(names) ==
    \E k \in 1..Len(names) :
        \E e \in RegistryNames : names[k] \in valid_names(e) /\ is_beta(e)

HasUnknown == \E n \in Requested : ~KnownName(n)

AttachPhasePcs ==
    { "get_cloud_instance", "detach_before_auto_attach",
      "get_auto_attach_token", "attach_with_token" }

Errors ==
    { "FullAutoAttachFailureError", "UserFacingError", "AlreadyAttachedError",
      "NonAutoAttachImageError", "AlreadyAttachedOnPROError",
      "ContractAPIError", "UrlError", "BetaServiceError",
      "EntitlementNotEnabledError", "EntitlementNotFoundError" }

\* the enable pass was reached and got past the beta check
EnablePassRan == passes >= 1 /\ ~BetaNamed(options.enable)

\* ----------------------------------------------------------------- claims
\* C1: within one call every step of the attach phase (get_cloud_instance,
\* detach_before_auto_attach, get_auto_attach_token, attach_with_token) is
\* invoked at most once, and once already_attached is true the call is never
\* at a step of the attach phase again.
C1_AttachPhaseAtMostOnce ==
    /\ calls["attach_with_token"] <= 1
    /\ calls["get_cloud_instance"] <= 1
    /\ calls["detach_before_auto_attach"] <= 1
    /\ calls["get_auto_attach_token"] <= 1
    /\ already_attached => pc \notin AttachPhasePcs

\* a second iteration is in its enable pass and the attach was made once
C1_Witness ==
    /\ pc = "for"
    /\ iterations >= 2
    /\ already_attached
    /\ calls["attach_with_token"] = 1

\* C2: success is returned only if attach_with_token returned without
\* raising in this call and either the request is empty or, in the returning
\* iteration, every requested name had a successful enable call and none was
\* unknown; every other end of the call is a raised error.
C2_SuccessOnlyIfAttachedAndAllEnabled ==
    /\ result = "FullAutoAttachResult" =>
          /\ attach_returned
          /\ calls["attach_with_token"] = 1
          /\ \/ Requested = {}
             \/ /\ ~HasUnknown
                /\ iter_ok = Requested
                /\ \A n \in Requested : iter_calls[n] >= 1
    /\ pc = "done" => result \in Errors \cup { "FullAutoAttachResult" }

\* success in a second iteration, for a request of two names
C2_Witness ==
    /\ result = "FullAutoAttachResult"
    /\ Cardinality(Requested) = 2
    /\ iterations = 2

\* C3: with a beta entitlement named in options.enable no call of
\* enable_entitlement_by_name is ever made, whatever enable_beta holds, and
\* the call ends with BetaServiceError as soon as its attach phase is over.
C3_BetaInEnableRaisesBeforeEnable ==
    BetaNamed(options.enable) =>
        /\ calls["enable_entitlement_by_name"] = 0
        /\ pc \notin { "for", "sleep" }
        /\ (pc = "done" /\ passes >= 1) => result = "BetaServiceError"
        /\ (pc = "done" /\ attach_returned) => result = "BetaServiceError"
        /\ result # "FullAutoAttachResult"

\* BetaServiceError for an enable list of a plain and a beta name, with a
\* non-empty enable_beta
C3_Witness ==
    /\ result = "BetaServiceError"
    /\ options.enable = << "esm-infra", "realtime-kernel" >>
    /\ options.enable_beta # << >>
    /\ calls["enable_entitlement_by_name"] = 0

\* C4: when the call fails with BetaServiceError, neither
\* get_auto_attach_token nor attach_with_token has been invoked and the
\* machine was not attached by this call.
C4_BetaErrorBeforeNetwork ==
    result = "BetaServiceError" =>
        /\ calls["get_auto_attach_token"] = 0
        /\ calls["attach_with_token"] = 0
        /\ ~attach_returned

C6_UnknownNotRetried ==
    (pc = "done" /\ HasUnknown /\ EnablePassRan /\ ~any_failed) =>
        /\ result = "EntitlementNotFoundError"
        /\ iterations = 1
        /\ passes = 1
        /\ sleeps = 0
        /\ \A n \in RequestNames :
              iter_calls[n] = IF n \in Requested /\ KnownName(n) THEN 1 ELSE 0
        /\ calls["enable_entitlement_by_name"] =
              Cardinality({ n \in Requested : KnownName(n) })

\* two known names were enabled and the unknown one raised the error
C6_Witness ==
    /\ result = "EntitlementNotFoundError"
    /\ ~any_failed
    /\ calls["enable_entitlement_by_name"] = 2
    /\ Cardinality(Requested) = 3

\* C7: a call that ends with EntitlementNotFoundError or BetaServiceError
\* has made no attach_with_token call and no enable_entitlement_by_name call.
C7_ResolutionErrorsBeforeMutation ==
    result \in { "EntitlementNotFoundError", "BetaServiceError" } =>
        /\ calls["attach_with_token"] = 0
        /\ calls["enable_entitlement_by_name"] = 0

\* the attempt limit C8 states: options.retries when given, 3 by default
C8_StatedLimit ==
    IF options.retries # << >> THEN options.retries[1] ELSE 3

\* C8: the loop body runs at most limit times, limit being options.retries
\* when given and 3 by default, and FullAutoAttachFailureError is raised
\* when all limit iterations ended without success and without an error.
C8_BodyRunsAtMostRetries ==
    /\ iterations <= IF C8_StatedLimit > 0 THEN C8_StatedLimit ELSE 0
    /\ result = "FullAutoAttachFailureError" =>
           iterations = IF C8_StatedLimit > 0 THEN C8_StatedLimit ELSE 0

\* C9: a call that returns success from the enable pass of iteration k has
\* slept exactly k-1 times, 2 time-units each, and k is within the limit.
C9_SuccessAfterKMinusOneSleeps ==
    (result = "FullAutoAttachResult" /\ passes >= 1) =>
        /\ sleeps = passes - 1
        /\ slept = 2 * (passes - 1)
        /\ iterations = passes
        /\ passes <= limit
        /\ passes > 1 => any_failed

\* retries=3, success on the third attempt, two sleeps
C9_Witness ==
    /\ options.retries = << 3 >>
    /\ result = "FullAutoAttachResult"
    /\ passes = 3
    /\ sleeps = 2
    /\ slept = 4

\* C10: every sleep is followed by another attempt of the enable pass, so a
\* finished call has slept fewer times than it attempted the enable pass.
C10_SleepOnlyBetweenAttempts ==
    pc = "done" => (sleeps = 0 \/ sleeps < passes)

\* C11: an enable call that fails with a CanEnableFailure reason carrying a
\* message ends the call at once with EntitlementNotEnabledError: the names
\* of found after it get no enable call in that iteration, and no sleep and
\* no further iteration follow.
C11_StructuredFailureAborts ==
    structured_failures > 0 =>
        /\ pc = "done"
        /\ result = "EntitlementNotEnabledError"
        /\ structured_failures = 1
        /\ \A k \in 1..Len(found) :
              iter_calls[found[k]] = IF k < pos THEN 1 ELSE 0
        /\ sleeps = passes - 1
        /\ iterations = passes

\* the first of two found names failed with a structured reason in a second
\* iteration; the other one was not tried
C11_Witness ==
    /\ result = "EntitlementNotEnabledError"
    /\ structured_failures = 1
    /\ Len(found) = 2
    /\ pos = 2
    /\ passes = 2

\* C12: with enable and enable_beta both empty or absent the attach is made
\* with allow_enable=True and success is returned right after it, with no
\* enable call and no sleep; with a name in either list the attach is made
\* with allow_enable=False and the enable pass follows in the same iteration.
C12_EmptyRequestAttachOnly ==
    /\ calls["attach_with_token"] >= 1 => (allow_enable <=> Requested = {})
    /\ (attach_returned /\ Requested = {}) =>
          /\ result = "FullAutoAttachResult"
          /\ calls["enable_entitlement_by_name"] = 0
          /\ sleeps = 0
          /\ passes = 0
          /\ iterations = 1
    /\ (attach_returned /\ Requested # {}) =>
          /\ ~allow_enable
          /\ already_attached
          /\ iterations = IF pc = "services" THEN passes + 1 ELSE passes
          /\ passes = 0 => (pc = "services" /\ sleeps = 0)

\* the attach of a call with only an enable_beta list has returned and the
\* enable pass of the first iteration is running
C12_Witness ==
    /\ attach_returned
    /\ options.enable = << >>
    /\ options.enable_beta # << >>
    /\ ~allow_enable
    /\ pc = "for"
    /\ iterations = 1

\* the errors the steps of the attach phase raise
AttachPhaseErrors ==
    { "UserFacingError", "AlreadyAttachedError", "NonAutoAttachImageError",
      "AlreadyAttachedOnPROError", "ContractAPIError", "UrlError" }

\* C13: an error raised by a step of the attach phase ends the call in its
\* first iteration with that error: no enable call, no sleep and no second
\* invocation of any step of the attach phase.
C13_AttachPhaseErrorNotRetried ==
    /\ calls["status"] >= 1 =>
          (pc = "done" /\ result \in { "UrlError", "UserFacingError" })
    /\ ~attach_returned =>
          /\ iterations <= 1
          /\ passes = 0
          /\ sleeps = 0
          /\ calls["enable_entitlement_by_name"] = 0
          /\ \A c \in { "get_cloud_instance", "detach_before_auto_attach",
                         "get_auto_attach_token", "attach_with_token" } :
                calls[c] <= 1
    /\ (pc = "done" /\ iterations >= 1 /\ ~attach_returned) =>
          result \in AttachPhaseErrors

\* attach_with_token raised in the first iteration of a call that may retry
C13_Witness ==
    /\ pc = "done"
    /\ calls["status"] = 1
    /\ result = "UrlError"
    /\ limit = 3
    /\ iterations = 1
    /\ Requested # {}

\* C18: a service enabled in an earlier iteration still counts in later
\* ones: an iteration that ends with every requested service enabled in
\* some iteration of this call returns success.
C18_PartialSuccessKept ==
    ( /\ Requested # {}
      /\ Requested \subseteq ever_ok
      /\ structured_failures = 0
      /\ pc \in { "sleep", "while", "done" } ) =>
        result = "FullAutoAttachResult"

\* C19: a ContractAPIError of the token request with a code in [400,500)
\* becomes NonAutoAttachImageError, one with any other code, a missing or a
\* zero code included, is raised as it is, in get_auto_attach_token and in
\* actions.auto_attach alike; attach_with_token is not invoked in either case.
C19_TokenErrorConversion ==
    token_error.raised =>
        /\ pc = "done"
        /\ result = IF token_error.code # << >> /\ token_error.code[1] \in 400..499
                    THEN "NonAutoAttachImageError"
                    ELSE "ContractAPIError"
        /\ calls["attach_with_token"] = 0
        /\ contract_outcome = "None"
        /\ ~attach_returned

\* get_auto_attach_token met code 400 inside full_auto_attach
C19_Witness ==
    /\ token_error = [ raised |-> TRUE, code |-> << 400 >> ]
    /\ result = "NonAutoAttachImageError"
    /\ calls["get_auto_attach_token"] = 1
    /\ calls["attach_with_token"] = 0

\* what a step of attach_with_token does to the marker and the status
AttachWithTokenStep ==
    pc \in { "attach_with_token", "auto_attach_attach" } =>
        /\ contract_outcome' \in { "ok", "UrlError", "UserFacingError" }
        /\ contract_outcome' # "ok" =>
              /\ pc' = "done"
              /\ result' = contract_outcome'
              /\ calls'["status"] = calls["status"] + 1
              /\ instance_id_cache' = instance_id_cache
        /\ contract_outcome' = "ok" =>
              /\ calls'["status"] = calls["status"]
              /\ instance_id_cache' =
                    IF current_iid # "None" THEN current_iid
                    ELSE instance_id_cache
        /\ instance_id_cache' # instance_id_cache => contract_outcome' = "ok"

\* C20: a step of attach_with_token writes the instance-id marker only when
\* request_updated_contract succeeded; when it failed, the cached status is
\* refreshed once, the same error leaves the function and the instance-id
\* cache keeps its value.
C20_MarkerOnlyAfterContract == [][AttachWithTokenStep]_vars

\* request_updated_contract failed on a machine whose instance id was not
\* cached: the status was refreshed and the cache is still empty
C20_Witness ==
    /\ contract_outcome = "UserFacingError"
    /\ result = "UserFacingError"
    /\ calls["status"] = 1
    /\ current_iid = "i-cur"
    /\ instance_id_cache = "None"


\* ------------------------------------------------------------ C14 .. C17
\* b stands before a in the list, and each of them stands in it once
Before(list, b, a) ==
    /\ \E j, k \in 1..Len(list) : j < k /\ list[j] = b /\ list[k] = a
    /\ \A j, k \in 1..Len(list) :
          (list[j] = list[k] /\ list[j] \in { a, b }) => j = k

\* C14: on every acyclic required_services graph entitlements_enable_order
\* returns a list in which every entitlement B that an entitlement A requires
\* stands before A; the registry of esm-infra and esm-apps, esm-apps
\* requiring esm-infra, gives [esm-infra, esm-apps]
C14_RequiredBeforeRequirer ==
    (lib_pc = "sorted" /\ sorted_by = "REQUIRED_SERVICES") =>
        /\ \A a \in Range(reg.classes) :
              \A b \in Range(reg.required[a]) : Before(order, b, a)
        /\ reg = ExampleRegistry => order = << "esm-infra", "esm-apps" >>

\* the enable order was computed for a graph in which an entitlement requires
\* one that is declared after it
C14_Witness ==
    /\ lib_pc = "sorted"
    /\ sorted_by = "REQUIRED_SERVICES"
    /\ reg.classes = SortClasses
    /\ SortClasses[2] \in Range(reg.required[SortClasses[1]])
    /\ order[1] # SortClasses[1]

\* C15: on every acyclic dependent_services graph entitlements_disable_order
\* returns a list in which every entitlement C listed in the dependent
\* services of an entitlement B stands before B
C15_DependentBeforeDependency ==
    (lib_pc = "sorted" /\ sorted_by = "DEPENDENT_SERVICES") =>
        \A b \in Range(reg.classes) :
            \A c \in Range(reg.dependent[b]) : Before(order, c, b)

\* the disable order was computed for a graph in which an entitlement has a
\* dependent service that is declared after it
C15_Witness ==
    /\ lib_pc = "sorted"
    /\ sorted_by = "DEPENDENT_SERVICES"
    /\ reg.classes = SortClasses
    /\ SortClasses[3] \in Range(reg.dependent[SortClasses[1]])
    /\ order[1] # SortClasses[1]

\* C16: inside an iteration the enable calls are made one at a time in
\* dependency order: when two requested services A and B are both found and
\* A requires B, A has been enabled only if B has been enabled before, in
\* whatever order enable and enable_beta name them
C16_EnableInDependencyOrder ==
    /\ \A n \in AllNames : iter_calls[n] <= 1
    /\ \A a \in Requested : \A b \in Requested :
          ( /\ KnownName(a) /\ KnownName(b)
            /\ \E e \in RegistryNames :
                  /\ a \in valid_names(e)
                  /\ \E d \in Range(required_services(e)) : b \in valid_names(d)
            /\ iter_calls[a] >= 1 )
          => iter_calls[b] >= 1

\* the request names esm-apps before esm-infra, which it requires, and both
\* have been enabled in the iteration
C16_Witness ==
    /\ options.enable = << "esm-apps", "esm-infra" >>
    /\ iter_calls["esm-apps"] = 1
    /\ iter_calls["esm-infra"] = 1

\* C17: resolution yields found, not_found and beta_rejected that partition
\* the requested names: every requested name is in exactly one of the three
\* and no other name is in any of them
C17_ResolutionPartitions ==
    lib_pc = "resolved" =>
        /\ Range(resolution.found) \cup resolution.not_found
              \cup resolution.beta_rejected = req_names
        /\ Range(resolution.found) \cap resolution.not_found = {}
        /\ Range(resolution.found) \cap resolution.beta_rejected = {}
        /\ resolution.not_found \cap resolution.beta_rejected = {}
        /\ Len(resolution.found) = Cardinality(Range(resolution.found))

\* a resolution without beta of a request that holds a known name, a beta
\* name and an unknown name
C17_Witness ==
    /\ lib_pc = "resolved"
    /\ ~allow_beta
    /\ { "esm-infra", "realtime-kernel", "wrong" } \subseteq req_names
    /\ resolution.found # << >>
    /\ resolution.not_found # {}
    /\ resolution.beta_rejected # {}


\* ------------------------------------------------------------ C21 .. C27
\* one step of detach_before_auto_attach
DetachStep ==
    pc = "detach_before_auto_attach" =>
        /\ (is_attached /\ current_iid = instance_id_cache) =>
              /\ result' = "AlreadyAttachedOnPROError"
              /\ pc' = "done"
              /\ calls'["_detach"] = calls["_detach"]
              /\ UNCHANGED machine
        /\ (is_attached /\ current_iid # instance_id_cache) =>
              /\ calls'["_detach"] = calls["_detach"] + 1
              /\ IF is_attached'
                 THEN result' = "UserFacingError" /\ pc' = "done"
                 ELSE result' = "None" /\ pc' = "get_auto_attach_token"
        /\ ~is_attached =>
              /\ result' = "None"
              /\ pc' = "get_auto_attach_token"
              /\ calls'["_detach"] = calls["_detach"]
              /\ UNCHANGED machine

\* C21: detach_before_auto_attach on an attached machine raises
\* AlreadyAttachedOnPROError without a detach when the current instance id is
\* the recorded one; when they differ it calls the forced detach once and
\* raises UserFacingError when the detach fails, the machine staying
\* attached; on a machine that is not attached it does nothing and raises
\* nothing
C21_DetachBeforeAutoAttach == [][DetachStep]_vars

\* the instance ids differed, the forced detach was called once and failed
C21_Witness ==
    /\ calls["_detach"] = 1
    /\ result = "UserFacingError"
    /\ is_attached
    /\ current_iid # instance_id_cache
    /\ calls["get_auto_attach_token"] = 0


\* the graph the sorter call went over
SortedGraph ==
    IF sorted_by = "REQUIRED_SERVICES" THEN reg.required ELSE reg.dependent

\* the first entry of list that is not in the set seen
FirstNotIn(list, seen) ==
    list[CHOOSE k \in 1..Len(list) :
            /\ list[k] \notin seen
            /\ \A j \in 1..(k - 1) : list[j] \in seen]

\* C22: on an acyclic graph _sort_entitlements returns every registry name
\* exactly once; the roots are taken in declaration order, so each entry is
\* the first class not yet listed or one of its descendants, and it is
\* appended after all its children; a second run on the same registry gives
\* the same list
C22_EveryNameOncePostOrder ==
    lib_pc = "sorted" =>
        /\ Len(order) = Len(reg.classes)
        /\ Range(order) = Range(reg.classes)
        /\ \A j, k \in 1..Len(order) : order[j] = order[k] => j = k
        /\ \A k \in 1..Len(order) :
              LET seen == { order[j] : j \in 1..(k - 1) }
                  root == FirstNotIn(reg.classes, seen)
              IN  /\ order[k] \in { root } \cup Descendants(SortedGraph, root)
                  /\ Range(SortedGraph[order[k]]) \subseteq seen
        /\ order = sort_entitlements(reg, sorted_by)

\* the enable order was computed for a graph in which the first two classes
\* both require the third
C22_Witness ==
    /\ lib_pc = "sorted"
    /\ sorted_by = "REQUIRED_SERVICES"
    /\ reg.classes = SortClasses
    /\ SortClasses[3] \in Range(reg.required[SortClasses[1]])
    /\ SortClasses[3] \in Range(reg.required[SortClasses[2]])
    /\ order[1] = SortClasses[3]


\* C23: _sort_entitlements returns for every acyclic graph, with the list
\* the recursive definition gives, and never returns when the graph it
\* goes over has a cycle: an entitlement is marked visited only after its
\* children, so the calls nest as deep as they are followed
C23_TerminatesIffAcyclic ==
    /\ (lib_pc = "visit" /\ Acyclic(SortedGraph)) ~> (lib_pc = "returned")
    /\ [](( lib_pc = "returned" /\ Acyclic(SortedGraph) ) =>
              order = sort_entitlements(reg, sorted_by))
    /\ [](~Acyclic(SortedGraph) => lib_pc # "returned")
    /\ (lib_pc = "visit" /\ ~Acyclic(SortedGraph)) ~> (Len(stack) = MaxDepth)

\* on a graph with a cycle the calls are nested MaxDepth deep, an entitlement
\* twice among them
C23_Witness ==
    /\ lib_pc = "visit"
    /\ ~Acyclic(SortedGraph)
    /\ Len(stack) = MaxDepth
    /\ \E j, k \in 1..Len(stack) : j < k /\ stack[j].ent = stack[k].ent


\* C24: in an iteration every distinct requested name is passed to enable at
\* most once, however often enable and enable_beta name it, and the count of
\* successful enable calls is compared with the number of distinct requested
\* names: a success has enabled each of them in its iteration, and an
\* iteration that goes on to the sleep has enabled fewer
C24_DistinctNamesOnce ==
    /\ \A n \in AllNames : iter_calls[n] <= 1
    /\ (result = "FullAutoAttachResult" /\ Requested # {}) =>
          /\ iter_ok = Requested
          /\ enabled_services = Cardinality(Requested)
    /\ pc = "sleep" => Cardinality(iter_ok) < Cardinality(Requested)

\* a name given twice in enable and once more in enable_beta was enabled by
\* one call and the request succeeded
C24_Witness ==
    /\ options.enable = << "esm-infra", "esm-infra" >>
    /\ options.enable_beta = << "esm-infra" >>
    /\ iter_calls["esm-infra"] = 1
    /\ calls["enable_entitlement_by_name"] = 1
    /\ result = "FullAutoAttachResult"


\* C25: is_any_beta returns True exactly when one of the names resolves
\* through entitlement_factory to an entitlement with is_beta set; names that
\* resolve to nothing are skipped, so a list of unknown names only gives
\* False
C25_IsAnyBeta ==
    lib_pc = "answered" =>
        /\ beta_answer \in BOOLEAN
        /\ beta_answer <=>
              \E k \in 1..Len(beta_ents) :
                  /\ entitlement_factory(beta_ents[k]) \in RegistryNames
                  /\ entitlement_factory(beta_ents[k]) \in BetaEntitlements
        /\ (\A k \in 1..Len(beta_ents) : ~KnownName(beta_ents[k])) => ~beta_answer

\* True for a list whose beta name stands behind an unknown name
C25_Witness ==
    /\ lib_pc = "answered"
    /\ beta_ents = << "wrong", "realtime-kernel" >>
    /\ beta_answer


\* C26: an enable call that fails without a structured reason does not end
\* the iteration: EntitlementNotEnabledError comes from a structured reason
\* only, the names of found are passed to enable one after the other up to
\* the last, and the iteration then ends with EntitlementNotFoundError or
\* with the attempt counter incremented and one sleep
C26_UnstructuredFailureGoesOn ==
    /\ result = "EntitlementNotEnabledError" => structured_failures = 1
    /\ (pc = "for" /\ structured_failures = 0) =>
          \A k \in 1..Len(found) :
              iter_calls[found[k]] = IF k < pos THEN 1 ELSE 0
    /\ (pc = "sleep" \/ result = "EntitlementNotFoundError") =>
          \A n \in Range(found) : iter_calls[n] = 1
    /\ pc = "sleep" =>
          /\ Cardinality(iter_ok) < Len(found)
          /\ any_failed
          /\ i = passes
          /\ sleeps = passes - 1
    /\ (pc = "while" /\ passes >= 1) => (i = passes /\ sleeps = passes)

\* the first of two found names failed without a structured reason, the
\* second was enabled all the same, and the first iteration goes to its sleep
C26_Witness ==
    /\ pc = "sleep"
    /\ Len(found) = 2
    /\ iter_ok = { found[2] }
    /\ iter_calls[found[1]] = 1
    /\ structured_failures = 0
    /\ i = 1
    /\ sleeps = 0


\* C27: the attempt limit is 3 when options.retries is absent or 0 and is
\* options.retries for every positive value; for a negative retries the loop
\* body never runs and FullAutoAttachFailureError is raised with no call of
\* any collaborator
C27_AttemptLimit ==
    /\ pc # "start" =>
          limit = IF options.retries = << >> THEN 3
                  ELSE IF options.retries[1] = 0 THEN 3
                  ELSE options.retries[1]
    /\ iterations <= (IF options.retries = << >> THEN 3
                      ELSE IF options.retries[1] = 0 THEN 3
                      ELSE IF options.retries[1] > 0 THEN options.retries[1]
                      ELSE 0)
    /\ (options.retries # << >> /\ options.retries[1] < 0) =>
          /\ pc \in { "start", "while", "done" }
          /\ pc = "done" => result = "FullAutoAttachFailureError"
          /\ \A c \in Collaborators : calls[c] = 0
          /\ sleeps = 0

\* with retries 0 the loop body is entered a third time
C27_Witness ==
    /\ options.retries = << 0 >>
    /\ iterations = 3
    /\ limit = 3
    /\ sleeps = 2

====
